---- MODULE Spec2Model ----
(***************************************************************************)
(* Model of zi.py: the flashcard quiz for Chinese characters.              *)
(*                                                                         *)
(* Weights are held in hundredths (10.0 is 1000, 0.01 is 1), times in      *)
(* clock ticks, and avg_time as a reduced fraction <<num, den>>, so that   *)
(* the quotient total_time / attempts is computed and compared exactly.    *)
(***************************************************************************)
EXTENDS Integers, Sequences, FiniteSets, TLC

\* ------------------------------------------------------------------------
\* Penalties and rewards (hundredths)
\* ------------------------------------------------------------------------
PENALTY_HINT == 150
PENALTY_SKIP == 300
PENALTY_INCORRECT == 400
REWARD_STREAK == 25
REWARD_TIME == 50
REWARD_CORRECT == 100
MAX_WEIGHT == 1000
MIN_WEIGHT == 1

\* ------------------------------------------------------------------------
\* Bounds of the model
\* ------------------------------------------------------------------------
\* scored or skipped turns per session
MaxTurns == 2
\* longest wait at one prompt, in ticks
MaxElapsed == 2

Min(a, b) == IF a <= b THEN a ELSE b
Max(a, b) == IF a >= b THEN a ELSE b

RECURSIVE Gcd(_, _)
Gcd(a, b) == IF b = 0 THEN a ELSE Gcd(b, a % b)

\* total_time / attempts, as a reduced fraction
Quotient(t, a) == LET g == Gcd(t, a) IN <<t \div g, a \div g>>
\* avg_time > 0
Positive(q) == q[1] > 0
\* elapsed_time < avg_time
LessThan(e, q) == e * q[2] < q[1]

\* ------------------------------------------------------------------------
\* The item store (json/zi.json) and what the user can type
\* ------------------------------------------------------------------------
DataFile ==
    << [character |-> "A", pinyin_marks |-> "ma", pinyin_numbers |-> "ma1"],
       [character |-> "B", pinyin_marks |-> "Ni", pinyin_numbers |-> "ni3"] >>

\* what the user can enter in add_new_entry: a new character or one that
\* exists
EntryInputs ==
    { [character |-> "C", pinyin_marks |-> "zz", pinyin_numbers |-> "ni3"],
      [character |-> "A", pinyin_marks |-> "ma", pinyin_numbers |-> "ma1"] }

Tokens == {"-q", "-Q", "-s", "-S", "-h", "-H", "ma", "MA1", "ni3", "zz"}

\* str.lower() on the strings of the model
lower(s) ==
    CASE s = "-Q" -> "-q"
      [] s = "-S" -> "-s"
      [] s = "-H" -> "-h"
      [] s = "MA1" -> "ma1"
      [] s = "Ni" -> "ni"
      [] OTHER -> s

get_quiz_item_data(item) ==
    << lower(item.pinyin_marks), lower(item.pinyin_numbers) >>

check_answer(user_input, answer_list) ==
    \E k \in DOMAIN answer_list : lower(user_input) = answer_list[k]

\* ------------------------------------------------------------------------
\* Progress records
\* ------------------------------------------------------------------------
get_default_progress_item(character) ==
    [character |-> character, weight |-> MAX_WEIGHT, streak |-> 0,
     avg_time |-> <<0, 1>>, total_time |-> 0, attempts |-> 0, correct |-> 0]

\* records an earlier run of the program has written
RecA == [character |-> "A", weight |-> 500, streak |-> 4,
         avg_time |-> <<2, 1>>, total_time |-> 8, attempts |-> 4, correct |-> 4]
RecB == [character |-> "B", weight |-> 125, streak |-> 5,
         avg_time |-> <<2, 1>>, total_time |-> 10, attempts |-> 5, correct |-> 5]
RecD == [character |-> "D", weight |-> 1000, streak |-> 0,
         avg_time |-> <<3, 1>>, total_time |-> 3, attempts |-> 1, correct |-> 0]

\* contents of progress/zi-progress.json when the program starts
InitStored == { <<>>, <<RecA, RecB>>, <<RecA, RecD>>, <<RecA, RecB, RecD>> }

VARIABLES
    pc,                 \* where the program waits
    data,               \* main(): data
    progress,           \* main(): progress
    stored,             \* contents of PROGRESS_FILE_PATH
    file_complete,      \* PROGRESS_FILE_PATH holds a whole JSON document
    g_random_mode,
    g_in_order_index,
    index,              \* run_quiz_session(): index
    inpt,               \* run_quiz_for_item(): inpt
    elapsed_time,       \* run_quiz_for_item(): elapsed_time
    orig_weight,        \* run_quiz_for_item(): orig_weight
    reward,             \* run_quiz_for_item(): reward
    result,             \* run_quiz_session(): result
    session_correct,
    session_attempts

vars == << pc, data, progress, stored, file_complete, g_random_mode,
           g_in_order_index, index, inpt, elapsed_time, orig_weight, reward, result, session_correct,
           session_attempts >>

\* ------------------------------------------------------------------------
\* Files
\* ------------------------------------------------------------------------
\* open(file_path, 'w') truncates the file; what json.dump has written of
\* the list before it is done is not a list yet
open_for_writing(file) == <<>>

save_data_nothing(content, file) == file

\* save_data(data, file_path): the file holds the list afterwards
save_data(content, file) == content

Chars(list) == { list[k].character : k \in DOMAIN list }

\* progress_map[char]: a later record of the file replaces an earlier one
progress_map(progress_data, char) ==
    LET last == CHOOSE k \in DOMAIN progress_data :
                    /\ progress_data[k].character = char
                    /\ \A m \in DOMAIN progress_data :
                          progress_data[m].character = char => m <= k
    IN progress_data[last]

synced_progress_forgets_stored(items, progress_data) ==
    [ k \in DOMAIN items |-> get_default_progress_item(items[k].character) ]

synced_progress_keeps_orphans(items, progress_data) ==
    LET new == SelectSeq(items,
                         LAMBDA it : it.character \notin Chars(progress_data))
    IN progress_data \o
       [ k \in DOMAIN new |-> get_default_progress_item(new[k].character) ]

\* lines 165-187: one record per item, in the order of the items; the second
\* loop drops nothing, every record it sees is the record of an item
synced_progress(items, progress_data) ==
    [ k \in DOMAIN items |->
        IF items[k].character \in Chars(progress_data)
        THEN progress_map(progress_data, items[k].character)
        ELSE get_default_progress_item(items[k].character) ]

has_changed(items, progress_data) ==
    \E k \in DOMAIN items : items[k].character \notin Chars(progress_data)

\* ------------------------------------------------------------------------
\* Weight updates of run_quiz_for_item
\* ------------------------------------------------------------------------
skip_update_hint_penalty(p) ==
    [p EXCEPT !.weight = Min(MAX_WEIGHT, p.weight + PENALTY_HINT),
              !.streak = 0,
              !.attempts = p.attempts + 1]

skip_update_counts_correct(p) ==
    [p EXCEPT !.weight = Min(MAX_WEIGHT, p.weight + PENALTY_SKIP),
              !.streak = 0,
              !.correct = p.correct + 1]

skip_update_subtracts(p) ==
    [p EXCEPT !.weight = Min(MAX_WEIGHT, p.weight - PENALTY_SKIP),
              !.streak = 0,
              !.attempts = p.attempts + 1]

\* lines 379-381
skip_update(p) ==
    [p EXCEPT !.weight = Min(MAX_WEIGHT, p.weight + PENALTY_SKIP),
              !.streak = 0,
              !.attempts = p.attempts + 1]

hint_update_unclamped(p) ==
    [p EXCEPT !.weight = p.weight + PENALTY_HINT]

hint_update_resets_streak(p) ==
    [p EXCEPT !.weight = Min(MAX_WEIGHT, p.weight + PENALTY_HINT),
              !.streak = 0]

\* line 386
hint_update(p) ==
    [p EXCEPT !.weight = Min(MAX_WEIGHT, p.weight + PENALTY_HINT)]

time_bonus_at_most(p, elapsed) ==
    IF Positive(p.avg_time) /\ elapsed * p.avg_time[2] <= p.avg_time[1]
    THEN REWARD_TIME ELSE 0

\* lines 405-406; p is the record with the avg_time of the turns before
time_bonus(p, elapsed) ==
    IF Positive(p.avg_time) /\ LessThan(elapsed, p.avg_time)
    THEN REWARD_TIME ELSE 0

correct_reward_without_streak(p, streak, elapsed) ==
    REWARD_CORRECT + time_bonus(p, elapsed)

correct_reward_old_streak(p, streak, elapsed) ==
    REWARD_CORRECT + REWARD_STREAK * p.streak + time_bonus(p, elapsed)

\* lines 404-406; p is the record before the answer, streak the streak
\* after its increment
correct_reward(p, streak, elapsed) ==
    REWARD_CORRECT + REWARD_STREAK * streak + time_bonus(p, elapsed)

\* lines 394-395, 400-408, 422
correct_update(p, elapsed) ==
    LET q == [p EXCEPT !.attempts = p.attempts + 1,
                       !.total_time = p.total_time + elapsed,
                       !.correct = p.correct + 1,
                       !.streak = p.streak + 1]
        w == Max(MIN_WEIGHT, q.weight - correct_reward(p, q.streak, elapsed))
    IN [q EXCEPT !.weight = w,
                 !.avg_time = Quotient(q.total_time, q.attempts)]

incorrect_update_keeps_streak(p, elapsed) ==
    LET q == [p EXCEPT !.attempts = p.attempts + 1,
                       !.total_time = p.total_time + elapsed,
                       !.weight = Min(MAX_WEIGHT, p.weight + PENALTY_INCORRECT)]
    IN [q EXCEPT !.avg_time = Quotient(q.total_time, q.attempts)]

incorrect_update_skip_penalty(p, elapsed) ==
    LET q == [p EXCEPT !.attempts = p.attempts + 1,
                       !.total_time = p.total_time + elapsed,
                       !.streak = 0,
                       !.weight = Min(MAX_WEIGHT, p.weight + PENALTY_SKIP)]
    IN [q EXCEPT !.avg_time = Quotient(q.total_time, q.attempts)]

\* lines 394-395, 417-418, 422
incorrect_update(p, elapsed) ==
    LET q == [p EXCEPT !.attempts = p.attempts + 1,
                       !.total_time = p.total_time + elapsed,
                       !.streak = 0,
                       !.weight = Min(MAX_WEIGHT, p.weight + PENALTY_INCORRECT)]
    IN [q EXCEPT !.avg_time = Quotient(q.total_time, q.attempts)]

\* ------------------------------------------------------------------------
\* Statistics
\* ------------------------------------------------------------------------
RECURSIVE Sum(_)
Sum(numbers) ==
    IF numbers = <<>> THEN 0 ELSE Head(numbers) + Sum(Tail(numbers))

\* a / b as a reduced fraction; <<0, 0>> stands for ZeroDivisionError, and
\* a fraction computed from it is <<0, 0>> again
Divide(a, b) == IF b = 0 THEN <<0, 0>> ELSE Quotient(a, b)

\* max(0.0, min(100.0, x))
Clamp100(x) ==
    IF x[2] = 0 THEN x
    ELSE IF x[1] < 0 THEN <<0, 1>>
    ELSE IF x[1] > 100 * x[2] THEN <<100, 1>>
    ELSE x

\* get_session_metadata(progress): << proficiency_percent, total_time >>
get_session_metadata(list) ==
    IF list = <<>> THEN << <<0, 1>>, 0 >>
    ELSE LET total_weight == Sum([k \in DOMAIN list |-> list[k].weight])
             total_time == Sum([k \in DOMAIN list |-> list[k].total_time])
             avg_weight == Divide(total_weight, Len(list))
             weight_range == MAX_WEIGHT - MIN_WEIGHT
             normalized_avg_difficulty ==
                 Divide(avg_weight[1] - MIN_WEIGHT * avg_weight[2],
                        avg_weight[2] * weight_range)
             proficiency_percent ==
                 Divide((normalized_avg_difficulty[2]
                            - normalized_avg_difficulty[1]) * 100,
                        normalized_avg_difficulty[2])
         IN << Clamp100(proficiency_percent), total_time >>

session_accuracy_unguarded(correct, attempts) ==
    Divide(correct * 100, attempts)

\* display_session_summary, line 465
session_accuracy(correct, attempts) ==
    IF attempts > 0 THEN Divide(correct * 100, attempts) ELSE <<0, 1>>

\* display_session_summary, lines 472-474
overall_accuracy(list) ==
    LET overall_total_correct == Sum([k \in DOMAIN list |-> list[k].correct])
        overall_total_attempts == Sum([k \in DOMAIN list |-> list[k].attempts])
    IN IF overall_total_attempts > 0
       THEN Divide(overall_total_correct * 100, overall_total_attempts)
       ELSE <<0, 1>>

\* display_item_metadata, line 341
item_accuracy(prog_item) ==
    IF prog_item.attempts > 0
    THEN Divide(prog_item.correct * 100, prog_item.attempts)
    ELSE <<0, 1>>

\* ------------------------------------------------------------------------
\* Initial state: the process has started, nothing is loaded yet
\* ------------------------------------------------------------------------
Init ==
    /\ pc = "start"
    /\ data = <<>>
    /\ progress = <<>>
    /\ stored \in InitStored
    /\ file_complete = TRUE
    /\ g_random_mode = TRUE
    /\ g_in_order_index = 0
    /\ index = 0
    /\ inpt = ""
    /\ elapsed_time = 0
    /\ orig_weight = 0
    /\ reward = 0
    /\ result = "none"
    /\ session_correct = 0
    /\ session_attempts = 0

\* the locals of run_quiz_for_item are gone with its frame
frame_dropped ==
    /\ inpt' = ""
    /\ elapsed_time' = 0
    /\ orig_weight' = 0
    /\ reward' = 0

\* the process has ended: what it held in memory is gone. data and progress
\* stay as the last lists it held, to be compared with the file.
process_gone ==
    /\ pc' = "exited"
    /\ frame_dropped
    /\ g_random_mode' = TRUE
    /\ g_in_order_index' = 0
    /\ index' = 0
    /\ result' = "none"
    /\ session_correct' = 0
    /\ session_attempts' = 0

\* load_and_sync_progress(data); the list it returns is bound to progress.
\* When it saves, the program is inside save_data until save_data_done.
load_and_sync_progress(items) ==
    /\ progress' = synced_progress(items, stored)
    /\ IF has_changed(items, stored)
       THEN /\ stored' = open_for_writing(stored)
            /\ file_complete' = FALSE
            /\ pc' = "saving_sync"
       ELSE /\ UNCHANGED << stored, file_complete >>
            /\ pc' = "menu"

\* main(): load the data and sync the progress, then show the menu
main_load ==
    /\ pc = "start"
    /\ data' = DataFile
    /\ load_and_sync_progress(DataFile)
    /\ UNCHANGED << g_random_mode, g_in_order_index, index, inpt,
                    elapsed_time, orig_weight, reward, result,
                    session_correct, session_attempts >>

\* main(): choice '1'
menu_toggle_random ==
    /\ pc = "menu"
    /\ g_random_mode' = ~g_random_mode
    /\ UNCHANGED << pc, data, progress, stored, file_complete,
                    g_in_order_index, index, inpt, elapsed_time, orig_weight,
                    reward, result, session_correct, session_attempts >>

\* main(): choice 'q'
menu_quit ==
    /\ pc = "menu"
    /\ process_gone
    /\ UNCHANGED << data, progress, stored, file_complete >>

\* add_new_entry(data): the list main() gets back. The entry is appended
\* unless the user cancels with 'q' or the character exists already.
add_new_entry(items, entry, cancelled) ==
    IF cancelled \/ entry.character \in Chars(items)
    THEN items
    ELSE Append(items, entry)

\* main(): choice 'a': add_new_entry, then load_and_sync_progress
menu_add_entry ==
    /\ pc = "menu"
    /\ \E entry \in EntryInputs, cancelled \in BOOLEAN :
          /\ data' = add_new_entry(data, entry, cancelled)
          /\ load_and_sync_progress(data')
    /\ UNCHANGED << g_random_mode, g_in_order_index, index, inpt,
                    elapsed_time, orig_weight, reward, result,
                    session_correct, session_attempts >>

\* main(): choice 's'; run_quiz_session up to its loop
run_quiz_session ==
    /\ pc = "menu"
    /\ g_in_order_index' = 0
    /\ IF data = <<>> \/ progress = <<>>
       THEN UNCHANGED << pc, session_correct, session_attempts >>
       ELSE /\ pc' = "loop"
            /\ session_correct' = 0
            /\ session_attempts' = 0
    /\ UNCHANGED << data, progress, stored, file_complete, g_random_mode,
                    index, inpt, elapsed_time, orig_weight, reward, result >>

in_order_next_stuck(cursor, data_len) == cursor

\* line 295
in_order_next(cursor, data_len) == (cursor + 1) % data_len

\* get_next_index(data_len, progress); run_quiz_for_item then shows the item
\* and waits at its first prompt with fresh locals
get_next_index ==
    /\ pc = "loop"
    /\ IF g_random_mode
       THEN /\ index' \in 0 .. (Len(data) - 1)
            /\ progress[index' + 1].weight > 0
            /\ UNCHANGED g_in_order_index
       ELSE /\ index' = g_in_order_index
            /\ g_in_order_index' = in_order_next(g_in_order_index, Len(data))
    /\ pc' = "prompt"
    /\ inpt' = ""
    /\ elapsed_time' = 0
    /\ orig_weight' = 0
    /\ reward' = 0
    /\ UNCHANGED << data, progress, stored, file_complete, g_random_mode,
                    result, session_correct, session_attempts >>

\* the finally block of run_quiz_session is entered: save_data opens the
\* progress file for writing; the summary follows when the save is done
session_finally ==
    /\ stored' = open_for_writing(stored)
    /\ file_complete' = FALSE
    /\ pc' = "saving_final"

\* lines 393-428: the input is scored as an answer
score(answer, elapsed) ==
    LET p == progress[index + 1]
        ok == check_answer(answer, get_quiz_item_data(data[index + 1]))
    IN /\ inpt' = answer
       /\ elapsed_time' = elapsed
       /\ progress' = [progress EXCEPT ![index + 1] =
                          IF ok THEN correct_update(p, elapsed)
                                ELSE incorrect_update(p, elapsed)]
       /\ reward' = IF ok THEN correct_reward(p, p.streak + 1, elapsed)
                          ELSE reward
       /\ result' = IF ok THEN "correct" ELSE "incorrect"
       /\ pc' = "continue"
       /\ UNCHANGED << data, stored, file_complete, g_random_mode,
                       g_in_order_index, index, session_correct,
                       session_attempts >>

\* run_quiz_for_item: a line is entered at the first prompt of a turn
prompt_input ==
    /\ pc = "prompt"
    /\ \E line \in Tokens, dt \in 1 .. MaxElapsed :
          /\ IF lower(line) = "-q"
             THEN /\ result' = "quit"
                  /\ frame_dropped
                  /\ UNCHANGED << data, progress, g_random_mode,
                                  g_in_order_index, index, session_correct,
                                  session_attempts >>
                  /\ session_finally
             ELSE /\ session_attempts < MaxTurns
                  /\ orig_weight' = progress[index + 1].weight
                  /\ IF lower(line) = "-s"
                     THEN /\ inpt' = line
                          /\ elapsed_time' = dt
                          /\ progress' = [progress EXCEPT ![index + 1] =
                                             skip_update(@)]
                          /\ result' = "skipped"
                          /\ session_attempts' = session_attempts + 1
                          /\ pc' = "loop"
                          /\ UNCHANGED << data, stored, file_complete,
                                          g_random_mode, g_in_order_index,
                                          index, reward, session_correct >>
                     ELSE IF lower(line) = "-h"
                     THEN /\ inpt' = line
                          /\ elapsed_time' = dt
                          /\ progress' = [progress EXCEPT ![index + 1] =
                                             hint_update(@)]
                          /\ pc' = "hinted"
                          /\ UNCHANGED << data, stored, file_complete,
                                          g_random_mode, g_in_order_index,
                                          index, reward, result,
                                          session_correct, session_attempts >>
                     ELSE score(line, dt)

\* run_quiz_for_item: a line is entered at the prompt after the hint
hint_input ==
    /\ pc = "hinted"
    /\ \E line \in Tokens, dt \in 1 .. MaxElapsed :
          /\ score(line, elapsed_time + dt)
          /\ UNCHANGED orig_weight

\* press_enter_continue, return to run_quiz_session, lines 539-545
press_enter_continue ==
    /\ pc = "continue"
    /\ session_attempts' = session_attempts + 1
    /\ session_correct' = IF result = "correct" THEN session_correct + 1
                          ELSE session_correct
    /\ pc' = "loop"
    /\ frame_dropped
    /\ UNCHANGED << data, progress, stored, file_complete, g_random_mode,
                    g_in_order_index, index, result >>

keyboard_interrupt_uncaught ==
    /\ pc \in {"prompt", "hinted", "continue"}
    /\ pc' = "exited"
    /\ UNCHANGED << data, progress, stored, file_complete, g_random_mode,
                    g_in_order_index, index, inpt, elapsed_time, orig_weight,
                    reward, result, session_correct, session_attempts >>

\* Ctrl-C at a prompt of the session: KeyboardInterrupt unwinds
\* run_quiz_for_item and is caught at line 547
keyboard_interrupt ==
    /\ pc \in {"prompt", "hinted", "continue"}
    /\ frame_dropped
    /\ UNCHANGED << data, progress, g_random_mode, g_in_order_index, index,
                    result, session_correct, session_attempts >>
    /\ session_finally

\* save_data: json.dump has written the whole list and the file is closed
save_data_done ==
    /\ pc \in {"saving_sync", "saving_final"}
    /\ stored' = save_data(progress, stored)
    /\ file_complete' = TRUE
    /\ pc' = IF pc = "saving_sync" THEN "menu" ELSE "summary"
    /\ frame_dropped
    /\ UNCHANGED << data, progress, g_random_mode, g_in_order_index, index,
                    result, session_correct, session_attempts >>

\* the process is stopped inside save_data (Ctrl-C, which save_data does
\* not catch, or a kill): the file stays as far as it was written
save_data_interrupted ==
    /\ pc \in {"saving_sync", "saving_final"}
    /\ process_gone
    /\ UNCHANGED << data, progress, stored, file_complete >>

\* display_session_summary is acknowledged, exit(0)
summary_exit ==
    /\ pc = "summary"
    /\ process_gone
    /\ UNCHANGED << data, progress, stored, file_complete >>

Next ==
    \/ main_load
    \/ menu_toggle_random
    \/ menu_quit
    \/ menu_add_entry
    \/ run_quiz_session
    \/ get_next_index
    \/ prompt_input
    \/ hint_input
    \/ press_enter_continue
    \/ keyboard_interrupt
    \/ save_data_done
    \/ save_data_interrupted
    \/ summary_exit

Spec == Init /\ [][Next]_vars

\* ------------------------------------------------------------------------
\* Vocabulary of the properties
\* ------------------------------------------------------------------------
InSession == pc \in {"loop", "prompt", "hinted", "continue"}

\* the record of the item on screen, before and after a step
Cur == progress[index + 1]
CurNext == progress'[index + 1]

Reserved == {"-q", "-s", "-h"}

RightAnswer(line, item) ==
    lower(line) \in {lower(item.pinyin_marks), lower(item.pinyin_numbers)}

\* the steps of a turn, told apart by the line that was entered
SkipStep == pc = "prompt" /\ lower(inpt') = "-s"
HintStep == pc = "prompt" /\ lower(inpt') = "-h"
AnswerStep ==
    \/ pc = "prompt" /\ inpt' \in Tokens /\ lower(inpt') \notin Reserved
    \/ pc = "hinted" /\ pc' = "continue"
CorrectStep == AnswerStep /\ RightAnswer(inpt', data[index + 1])
IncorrectStep == AnswerStep /\ ~RightAnswer(inpt', data[index + 1])

StoredRecord(char) ==
    { stored[k] : k \in { m \in DOMAIN stored : stored[m].character = char } }

\* C1: the weight of every progress record is within
\* [MIN_WEIGHT, MAX_WEIGHT] in every reachable state, the state between a
\* hint and the answer included.
C1_WeightInRange ==
    \A k \in DOMAIN progress :
        /\ progress[k].weight >= MIN_WEIGHT
        /\ progress[k].weight <= MAX_WEIGHT

\* a hint has pushed a weight below the ceiling up to the ceiling
C1_Witness ==
    /\ pc = "hinted"
    /\ orig_weight < MAX_WEIGHT
    /\ orig_weight + PENALTY_HINT > MAX_WEIGHT
    /\ Cur.weight = MAX_WEIGHT

\* C2: attempts and correct of a record never decrease from one state to
\* the next, and correct <= attempts in every reachable state.
C2_CountersMonotone ==
    /\ [](\A k \in DOMAIN progress :
              progress[k].correct <= progress[k].attempts)
    /\ [][\A k \in DOMAIN progress :
              /\ k \in DOMAIN progress'
              /\ progress'[k].attempts >= progress[k].attempts
              /\ progress'[k].correct >= progress[k].correct]_vars

\* a skip has been counted for a record that has no correct answer yet
C2_Witness ==
    /\ pc = "loop"
    /\ result = "skipped"
    /\ Cur.attempts = 1
    /\ Cur.correct = 0

C4_TimeStatsEveryTurn ==
    [][(SkipStep \/ AnswerStep) =>
          /\ CurNext.total_time = Cur.total_time + elapsed_time'
          /\ CurNext.avg_time = Quotient(CurNext.total_time, CurNext.attempts)
      ]_vars

\* C5: a skip sets weight to min(MAX_WEIGHT, weight + PENALTY_SKIP) and
\* streak to 0, adds 1 to attempts and leaves correct unchanged.
C5_Skip ==
    [][SkipStep =>
          /\ CurNext.weight = Min(MAX_WEIGHT, Cur.weight + PENALTY_SKIP)
          /\ CurNext.streak = 0
          /\ CurNext.attempts = Cur.attempts + 1
          /\ CurNext.correct = Cur.correct
      ]_vars

\* the skip of the example: weight 5.0 became 8.0
C5_Witness ==
    /\ pc = "loop"
    /\ result = "skipped"
    /\ orig_weight = 500
    /\ Cur.weight = 800
    /\ Cur.streak = 0

\* C6: a hint sets weight to min(MAX_WEIGHT, weight + PENALTY_HINT), leaves
\* every other field of the record unchanged and does not end the turn: the
\* program waits at the prompt after the hint, no result, no session count.
C6_Hint ==
    [][HintStep =>
          /\ progress' = [progress EXCEPT ![index + 1].weight =
                             Min(MAX_WEIGHT, Cur.weight + PENALTY_HINT)]
          /\ pc' = "hinted"
          /\ result' = result
          /\ session_attempts' = session_attempts
          /\ session_correct' = session_correct
      ]_vars

\* a hint was taken on a record with a streak, below the ceiling
C6_Witness ==
    /\ pc = "hinted"
    /\ Cur.streak > 0
    /\ Cur.weight = orig_weight + PENALTY_HINT

\* C7: a correct answer adds 1 to streak, correct and attempts and sets
\* weight to max(MIN_WEIGHT, weight - reward), reward being REWARD_CORRECT +
\* REWARD_STREAK * (the streak after the increment), plus REWARD_TIME when
\* the time bonus is given.
C7_Correct ==
    [][CorrectStep =>
          /\ CurNext.streak = Cur.streak + 1
          /\ CurNext.correct = Cur.correct + 1
          /\ CurNext.attempts = Cur.attempts + 1
          /\ reward' - (REWARD_CORRECT + REWARD_STREAK * CurNext.streak)
                \in {0, REWARD_TIME}
          /\ CurNext.weight = Max(MIN_WEIGHT, Cur.weight - reward')
      ]_vars

\* the correct answer of the example: weight 10.0 became 8.75
C7_Witness ==
    /\ pc = "continue"
    /\ RightAnswer(inpt, data[index + 1])
    /\ orig_weight = 1000
    /\ Cur.weight = 875
    /\ Cur.streak = 1
    /\ Cur.attempts = 1
    /\ Cur.correct = 1

\* C8: on a correct answer REWARD_TIME is part of the reward if and only if
\* the avg_time of before the turn is > 0 and the elapsed time of the turn
\* is strictly less than it.
C8_TimeBonus ==
    [][CorrectStep =>
          ( reward' = REWARD_CORRECT + REWARD_STREAK * CurNext.streak
                         + REWARD_TIME
            <=> ( /\ Cur.avg_time[1] > 0
                  /\ elapsed_time' * Cur.avg_time[2] < Cur.avg_time[1] ) )
      ]_vars

\* a correct answer faster than the average of before got the bonus
C8_Witness ==
    /\ pc = "continue"
    /\ RightAnswer(inpt, data[index + 1])
    /\ reward = REWARD_CORRECT + REWARD_STREAK * Cur.streak + REWARD_TIME

\* C9: an incorrect answer sets streak to 0, adds 1 to attempts, leaves
\* correct unchanged and sets weight to
\* min(MAX_WEIGHT, weight + PENALTY_INCORRECT).
C9_Incorrect ==
    [][IncorrectStep =>
          /\ CurNext.streak = 0
          /\ CurNext.attempts = Cur.attempts + 1
          /\ CurNext.correct = Cur.correct
          /\ CurNext.weight = Min(MAX_WEIGHT, Cur.weight + PENALTY_INCORRECT)
      ]_vars

\* the incorrect answer of the example: weight 10.0 stayed 10.0
C9_Witness ==
    /\ pc = "continue"
    /\ ~RightAnswer(inpt, data[index + 1])
    /\ orig_weight = 1000
    /\ Cur.weight = 1000
    /\ Cur.streak = 0
    /\ Cur.attempts = 1
    /\ Cur.correct = 0

\* C10: with w the weight before the step, a correct answer gives a weight
\* below w when w > MIN_WEIGHT; an incorrect answer, a skip and a hint give
\* a weight above w when w < MAX_WEIGHT, and a skip and a hint never give a
\* weight below w.
C10_Direction ==
    [][/\ CorrectStep /\ Cur.weight > MIN_WEIGHT
            => CurNext.weight < Cur.weight
       /\ IncorrectStep /\ Cur.weight < MAX_WEIGHT
            => CurNext.weight > Cur.weight
       /\ SkipStep \/ HintStep
            => /\ CurNext.weight >= Cur.weight
               /\ Cur.weight < MAX_WEIGHT => CurNext.weight > Cur.weight
      ]_vars

\* a correct answer has brought a weight down to the floor
C10_Witness ==
    /\ pc = "continue"
    /\ RightAnswer(inpt, data[index + 1])
    /\ orig_weight > MIN_WEIGHT
    /\ Cur.weight = MIN_WEIGHT

\* a line was entered at a prompt of the turn and the turn is still on
\* (every wait takes time)
LineEntered ==
    /\ pc \in {"prompt", "hinted"}
    /\ inpt' \in Tokens
    /\ elapsed_time' > elapsed_time

\* -q was entered: at the first prompt run_quiz_for_item returns "quit"
QuitEntered ==
    \/ pc = "prompt" /\ result' = "quit"
    \/ LineEntered /\ lower(inpt') = "-q"

\* C11: a quit command (-q in any letter case) at a prompt of a turn ends
\* the session and leaves the record of the current item as it was when the
\* command was entered.
C11_Quit ==
    [][QuitEntered =>
          /\ progress' = progress
          /\ ~(InSession')
      ]_vars

\* C12: at every prompt of a turn, the prompt after a hint included, -q is
\* taken as quit, -s as skip and -h as hint, and none of them is scored as
\* an answer.
C12_ReservedTokens ==
    [][/\ QuitEntered => ~(InSession')
       /\ (LineEntered /\ lower(inpt') = "-s") =>
             pc' = "loop" /\ CurNext.total_time = Cur.total_time
       /\ (LineEntered /\ lower(inpt') = "-h") =>
             pc' = "hinted" /\ CurNext.attempts = Cur.attempts
      ]_vars

\* C14: in sequential mode the cursor is 0 when the session starts and the
\* k-th draw of a session returns index (k - 1) mod N: with session_attempts
\* turns finished, the item on screen is number session_attempts mod N and
\* the cursor is one draw further.
C14_RoundRobin ==
    (InSession /\ ~g_random_mode) =>
        IF pc = "loop"
        THEN g_in_order_index = session_attempts % Len(data)
        ELSE /\ index = session_attempts % Len(data)
             /\ g_in_order_index = (session_attempts + 1) % Len(data)

\* after N finished turns the draw has wrapped round to the first item
C14_Witness ==
    /\ pc = "prompt"
    /\ ~g_random_mode
    /\ session_attempts = Len(data)
    /\ index = 0

\* C20: when the summary of a session is acknowledged, the program is at
\* the main menu again.
C20_ReturnsToMenu ==
    [][pc = "summary" => pc' = "menu"]_vars

\* C13: synchronization returns one record per item, in the order of the
\* items: the stored record, unchanged, for an item that has one, a default
\* record for an item that has none, and no record of a character that is
\* not an item.
C13_Sync ==
    [][(pc \in {"start", "menu"} /\ pc' \in {"menu", "saving_sync"}) =>
          /\ Len(progress') = Len(data')
          /\ \A k \in DOMAIN data' :
                LET char == data'[k].character
                IN /\ progress'[k].character = char
                   /\ char \in Chars(stored) =>
                         progress'[k] \in StoredRecord(char)
                   /\ char \notin Chars(stored) =>
                         progress'[k] =
                            [character |-> char, weight |-> MAX_WEIGHT,
                             streak |-> 0, avg_time |-> <<0, 1>>,
                             total_time |-> 0, attempts |-> 0, correct |-> 0]
      ]_vars

\* the sync of the example: items A, B, C; the stored records of A and B
\* are kept and C has a default record
C13_Witness ==
    /\ pc = "saving_sync"
    /\ Chars(data) = {"A", "B", "C"}
    /\ progress = <<RecA, RecB, get_default_progress_item("C")>>

C17_SaveAllOrNothing ==
    pc = "exited" => file_complete

\* C18: no statistic divides by zero: the proficiency of an empty list, an
\* accuracy over 0 attempts are 0; avg_time has just been computed only
\* for a record with attempts >= 1; the proficiency is within [0, 100].
C18_NoDivisionByZero ==
    LET proficiency == get_session_metadata(progress)[1]
        session == session_accuracy(session_correct, session_attempts)
        overall == overall_accuracy(progress)
    IN /\ proficiency[2] # 0
       /\ proficiency[1] >= 0
       /\ proficiency[1] <= 100 * proficiency[2]
       /\ progress = <<>> => proficiency[1] = 0
       /\ session[2] # 0
       /\ session_attempts = 0 => session[1] = 0
       /\ overall[2] # 0
       /\ (\A k \in DOMAIN progress : progress[k].attempts = 0) =>
             overall[1] = 0
       /\ \A k \in DOMAIN progress :
             /\ item_accuracy(progress[k])[2] # 0
             /\ progress[k].attempts = 0 =>
                   item_accuracy(progress[k])[1] = 0
       /\ pc = "continue" => Cur.attempts >= 1

\* the summary of a session without a finished turn, over records that
\* were never attempted
C18_Witness ==
    /\ pc = "summary"
    /\ session_attempts = 0
    /\ \A k \in DOMAIN progress : progress[k].attempts = 0

\* C19: in every turn the index drawn is within 0..N-1 and the item shown
\* and the record updated at that index have the same character.
C19_Aligned ==
    pc \in {"prompt", "hinted", "continue"} =>
        /\ index \in 0 .. (Len(data) - 1)
        /\ index + 1 \in DOMAIN progress
        /\ data[index + 1].character = progress[index + 1].character

\* a turn on the entry that was added in the main menu
C19_Witness ==
    /\ pc = "continue"
    /\ Len(data) = 3
    /\ index = 2
    /\ data[3].character = "C"
    /\ progress[3].character = "C"
    /\ progress[3].attempts = 1

\* C21: when the main menu is shown, synchronization has returned: the
\* progress file and the list it returned hold the same characters, a
\* default record is in the file and an orphaned record is out of it.
C21_SyncWritesStorage ==
    pc = "menu" => Chars(stored) = Chars(progress)

\* C22: in every record 0 <= streak <= correct <= attempts, and the streak
\* of the current record is 0 right after a skipped and right after an
\* incorrect turn.
C22_StreakWithinCorrect ==
    /\ \A k \in DOMAIN progress :
          /\ 0 <= progress[k].streak
          /\ progress[k].streak <= progress[k].correct
          /\ progress[k].correct <= progress[k].attempts
    /\ (pc = "loop" /\ result = "skipped") => Cur.streak = 0
    /\ (pc = "continue" /\ result = "incorrect") => Cur.streak = 0

\* the first turn on stored record A (streak 4, correct 4) was answered
\* incorrectly
C22_Witness ==
    /\ pc = "continue"
    /\ result = "incorrect"
    /\ Cur.character = "A"
    /\ Cur.streak = 0
    /\ Cur.correct = 4
    /\ Cur.attempts = 5

\* the progress the session started with: the file is not written between
\* the turns, and progress was synchronized with it before the session
SessionStart == synced_progress(data, stored)

\* C23: when a session ends, by quit or by an interrupt at any of its
\* prompts, session_attempts is the sum over all records of the attempts
\* gained in the session and session_correct the sum of the correct gained;
\* session_correct <= session_attempts in every state.
C23_SessionCounters ==
    /\ [](session_correct <= session_attempts)
    /\ [][(InSession /\ ~(InSession')) =>
             /\ session_attempts =
                   Sum([k \in DOMAIN progress |-> progress[k].attempts])
                   - Sum([k \in DOMAIN SessionStart |->
                            SessionStart[k].attempts])
             /\ session_correct =
                   Sum([k \in DOMAIN progress |-> progress[k].correct])
                   - Sum([k \in DOMAIN SessionStart |->
                            SessionStart[k].correct])
         ]_vars

\* C24: a correct answer at the prompt after a hint leaves the weight at
\* max(MIN_WEIGHT, min(MAX_WEIGHT, w + PENALTY_HINT) - reward), w being the
\* weight at the start of the turn; with streak 0 before the turn, no time
\* bonus and w + PENALTY_HINT <= MAX_WEIGHT that is w + 0.25, above w.
C24_HintThenCorrect ==
    [][(pc = "hinted" /\ CorrectStep) =>
          /\ CurNext.weight =
                Max(MIN_WEIGHT,
                    Min(MAX_WEIGHT, orig_weight + PENALTY_HINT) - reward')
          /\ ( /\ Cur.streak = 0
               /\ ~( /\ Cur.avg_time[1] > 0
                     /\ elapsed_time' * Cur.avg_time[2] < Cur.avg_time[1] )
               /\ orig_weight + PENALTY_HINT <= MAX_WEIGHT )
             => ( /\ CurNext.weight = orig_weight + 25
                  /\ CurNext.weight > orig_weight )
      ]_vars

\* a hint and then the correct answer on a record without a streak: the
\* weight is 0.25 above the weight the turn started with
C24_Witness ==
    /\ pc = "continue"
    /\ result = "correct"
    /\ Cur.streak = 1
    /\ orig_weight + PENALTY_HINT <= MAX_WEIGHT
    /\ Cur.weight = orig_weight + 25

====
